---- MODULE Spec2Model ----
\* A model of prow/kube/client.go: the Kubernetes API client's request
\* execution layer (request, requestRetry, doRequest), its two constructors
\* and the public operations that all go through it.
EXTENDS Integers, Sequences, FiniteSets, TLC

\* ------------------------------------------------------------------ bounds

\* Goroutines that may call into one shared Client.
NumThreads == 2

Threads == 1..NumThreads

\* The goroutines that run under the sequential specification Spec.
Sequential == {1}

\* ---------------------------------------------------------------- constants

\* client.go:34
maxRetries == 8

\* client.go:35, in seconds (2 * time.Second)
retryDelay == 2

\* ------------------------------------------------------------------- values

\* Response bodies, as sequences of JSON tokens.
EmptyBody == <<>>
EmptyObject == <<"{", "}">>
NamedObject == <<"{", "\"name\"", ":", "\"p\"", "}">>
NullBody == <<"null">>
NumberBody == <<"1">>
TruncatedBody == <<"{">>

Bodies == {EmptyBody, EmptyObject, NamedObject, NullBody, NumberBody, TruncatedBody}

\* Status codes a server may answer with.
Statuses == {199, 200, 299, 300, 404, 409, 500}

\* resp.Status, the status line text the transport fills in beside StatusCode.
StatusText(code) ==
    CASE code = 199 -> "199 status code 199"
      [] code = 200 -> "200 OK"
      [] code = 299 -> "299 status code 299"
      [] code = 300 -> "300 Multiple Choices"
      [] code = 404 -> "404 Not Found"
      [] code = 409 -> "409 Conflict"
      [] code = 500 -> "500 Internal Server Error"

\* A []byte: nil, or a (possibly empty) buffer.
NilBytes == [isNil |-> TRUE, data |-> <<>>]
Bytes(data) == [isNil |-> FALSE, data |-> data]

\* An error value: dyn is its dynamic type ("nil" for the nil error), fmt the
\* format that built its message, status and body the message's arguments,
\* id the ordinal of the doRequest invocation that allocated it (0 when it was
\* not allocated by doRequest).
MkErr(dyn, fmt, status, body, id) ==
    [dyn |-> dyn, fmt |-> fmt, status |-> status, body |-> body, id |-> id]
NilErr == MkErr("nil", "", "", <<>>, 0)

\* Errors http.Client.Do returns (connection refused, timeout, DNS).
TransportFailures == {"connection refused", "i/o timeout"}
TransportErr(why, n) == MkErr("*url.Error", why, "", <<>>, n)

\* An *http.Response; Body is the reader: its content, and whether reading it
\* fails part-way.
MkResp(code, data, bad) ==
    [isNil |-> FALSE, StatusCode |-> code, Status |-> StatusText(code),
     Body |-> [data |-> data, readFails |-> bad]]
NilResp ==
    [isNil |-> TRUE, StatusCode |-> 0, Status |-> "",
     Body |-> [data |-> <<>>, readFails |-> FALSE]]

\* ------------------------------------------------------ encoding/json model

StrToks == {"\"name\"", "\"p\""}
ScalarToks == StrToks \cup {"null", "1"}

\* The index after the JSON value that starts at b[i], or 0 when there is none
\* (what json's scanner accepts: scalars and objects of "key": value members).
RECURSIVE ParseValue(_, _), ParseMembers(_, _)
ParseValue(b, i) ==
    IF i > Len(b) THEN 0
    ELSE IF b[i] \in ScalarToks THEN i + 1
    ELSE IF b[i] = "{"
         THEN IF i + 1 <= Len(b) /\ b[i + 1] = "}" THEN i + 2
              ELSE ParseMembers(b, i + 1)
    ELSE 0
ParseMembers(b, i) ==
    IF i + 1 > Len(b) \/ b[i] \notin StrToks \/ b[i + 1] # ":" THEN 0
    ELSE LET j == ParseValue(b, i + 2)
         IN  IF j = 0 \/ j > Len(b) THEN 0
             ELSE IF b[j] = "}" THEN j + 1
             ELSE IF b[j] = "," THEN ParseMembers(b, j + 1)
             ELSE 0

\* json.checkValid: the whole input is exactly one value.
ValidJSON(b) == ParseValue(b, 1) = Len(b) + 1

\* The result structs (Pod, Job, the list wrappers) as one struct with the
\* single field "name"; ZeroValue is the struct as `var retPod Pod` leaves it.
ZeroValue == [name |-> ""]

\* The positions of the top-level member "name" of an object.
NameKeys(b) ==
    {i \in 2..(Len(b) - 2) :
        /\ b[i] = "\"name\""
        /\ b[i + 1] = ":"
        /\ Cardinality({k \in 1..(i - 1) : b[k] = "{"})
             - Cardinality({k \in 1..(i - 1) : b[k] = "}"}) = 1}

\* json.Unmarshal(data, &v) for a struct v: <<v afterwards, error>>.
\* Invalid input (the empty input included) is a *json.SyntaxError and leaves v
\* alone; null is a no-op; a non-object is a *json.UnmarshalTypeError; an
\* object sets the fields it names.
Unmarshal(data, v) ==
    IF ~ValidJSON(data)
    THEN <<v, MkErr("*json.SyntaxError", "syntax", "", <<>>, 0)>>
    ELSE IF data[1] = "null" THEN <<v, NilErr>>
    ELSE IF data[1] # "{"
    THEN <<v, MkErr("*json.UnmarshalTypeError", "type", "", <<>>, 0)>>
    ELSE IF NameKeys(data) = {} THEN <<v, NilErr>>
    ELSE LET i == CHOOSE k \in NameKeys(data) : \A m \in NameKeys(data) : m <= k
             tok == data[i + 2]
         IN  IF tok = "null" THEN <<v, NilErr>>
             ELSE IF tok \in StrToks THEN <<[v EXCEPT !.name = tok], NilErr>>
             ELSE <<v, MkErr("*json.UnmarshalTypeError", "type", "", <<>>, 0)>>

\* ------------------------------------------------------------- error kinds

\* The method set of each dynamic error type that reaches a caller.
MethodSet(dyn) ==
    CASE dyn = "*url.Error" -> {"Error", "Timeout", "Temporary"}
      [] dyn = "*errors.errorString" -> {"Error"}
      [] dyn = "*json.SyntaxError" -> {"Error"}
      [] dyn = "*json.UnmarshalTypeError" -> {"Error"}
      [] dyn = "*json.UnsupportedTypeError" -> {"Error"}
      [] dyn = "*os.PathError" -> {"Error", "Timeout"}
      [] OTHER -> {}

\* `type ConflictError error`: an interface type whose method set is that of
\* the built-in error interface.
ConflictErrorMethods == {"Error"}

\* The conversion ConflictError(e): an interface-to-interface conversion, which
\* keeps the dynamic type and value of e.
ConflictError(e) == e

\* The type assertion `_, ok := e.(ConflictError)`: the one test of the kind
\* the language offers. An assertion to an interface type holds when e is
\* non-nil and its dynamic type implements the interface.
IsConflictError(e) ==
    /\ e.dyn # "nil"
    /\ ConflictErrorMethods \subseteq MethodSet(e.dyn)

\* ------------------------------------------------------ response interpreter

\* A classification that has no case for 409.
ClassifyNoConflict(resp, rb) ==
    IF resp.StatusCode < 200 \/ resp.StatusCode > 299
    THEN <<NilBytes,
           MkErr("*errors.errorString",
                 "response has status \"%s\" and body \"%s\"", resp.Status, rb, 0)>>
    ELSE <<Bytes(rb), NilErr>>

\* A classification whose success range ends one status early.
ClassifyShortRange(resp, rb) ==
    IF resp.StatusCode = 409
    THEN <<NilBytes, MkErr("*errors.errorString", "body: %s", "", rb, 0)>>
    ELSE IF resp.StatusCode < 200 \/ resp.StatusCode >= 299
    THEN <<NilBytes,
           MkErr("*errors.errorString",
                 "response has status \"%s\" and body \"%s\"", resp.Status, rb, 0)>>
    ELSE <<Bytes(rb), NilErr>>

\* requestRetry's classification of a response whose body rb was read:
\* <<bytes, error>> as returned.
Classify(resp, rb) ==
    IF resp.StatusCode = 409
    THEN <<NilBytes,
           ConflictError(MkErr("*errors.errorString", "body: %s", "", rb, 0))>>
    ELSE IF resp.StatusCode < 200 \/ resp.StatusCode > 299
    THEN <<NilBytes,
           MkErr("*errors.errorString",
                 "response has status \"%s\" and body \"%s\"", resp.Status, rb, 0)>>
    ELSE <<Bytes(rb), NilErr>>

\* ioutil.ReadAll(resp.Body): <<bytes read, error>>.
ReadAll(body) ==
    IF body.readFails
    THEN <<<<>>, MkErr("*errors.errorString", "unexpected EOF", "", <<>>, 0)>>
    ELSE <<body.data, NilErr>>

\* -------------------------------------------------------------- operations

Ops ==
    {"GetPod", "ListPods", "DeletePod", "GetJob", "ListJobs", "CreatePod",
     "CreateJob", "DeleteJob", "PatchJob", "PatchJobStatus", "ReplaceSecret",
     "GetLog"}

\* The operations that pass a non-nil result slot to Client.request.
SlotOps ==
    {"GetPod", "ListPods", "GetJob", "ListJobs", "CreatePod", "CreateJob",
     "PatchJob", "PatchJobStatus"}

\* The operations that call requestRetry directly, not through Client.request.
RawOps == {"GetLog"}

Method(o) ==
    CASE o \in {"GetPod", "ListPods", "GetJob", "ListJobs", "GetLog"} -> "GET"
      [] o \in {"DeletePod", "DeleteJob"} -> "DELETE"
      [] o \in {"CreatePod", "CreateJob"} -> "POST"
      [] o \in {"PatchJob", "PatchJobStatus"} -> "PATCH"
      [] o = "ReplaceSecret" -> "PUT"

\* The path of each operation: <<API group, namespace, resource, name, suffix>>.
Path(o, ns, name) ==
    CASE o \in {"GetPod", "DeletePod"} -> <<"/api/v1", ns, "pods", name, "">>
      [] o \in {"ListPods", "CreatePod"} -> <<"/api/v1", ns, "pods", "", "">>
      [] o = "GetLog" -> <<"/api/v1", ns, "pods", name, "log">>
      [] o = "ReplaceSecret" -> <<"/api/v1", ns, "secrets", name, "">>
      [] o \in {"GetJob", "DeleteJob", "PatchJob"} ->
            <<"/apis/batch/v1", ns, "jobs", name, "">>
      [] o \in {"ListJobs", "CreateJob"} -> <<"/apis/batch/v1", ns, "jobs", "", "">>
      [] o = "PatchJobStatus" -> <<"/apis/batch/v1", ns, "jobs", name, "status">>

\* The operations that send a payload as the request body.
BodyOps == {"CreatePod", "CreateJob", "PatchJob", "PatchJobStatus", "ReplaceSecret"}

\* The operations that take a name, and those that take a label mapping.
NameOps ==
    {"GetPod", "DeletePod", "GetJob", "DeleteJob", "PatchJob", "PatchJobStatus",
     "ReplaceSecret", "GetLog"}
ListOps == {"ListPods", "ListJobs"}

\* Names a caller may pass; "%zz" is an invalid URL escape, which url.Parse,
\* and so http.NewRequest, rejects.
Names == {"n", "%zz"}

\* Payloads a caller may pass; "unencodable" stands for a value json.Marshal
\* rejects.
Payloads == {"obj1", "obj2", "unencodable"}

\* ------------------------------------------------------- labelsToSelector

LabelKeys == {"a", "b", "c"}
LabelValues == {"1", "2"}

\* A fixed order of the keys, for printing a map.
KeyOrder == <<"a", "b", "c">>

\* map[string]string values: every mapping of some of the keys (keys unique).
LabelMaps == UNION {[S -> LabelValues] : S \in SUBSET LabelKeys}
NoLabels == [k \in {} |-> ""]

\* The orders in which `range labels` may visit the keys: Go leaves the
\* iteration order of a map unspecified.
Orders(S) ==
    {p \in [1..Cardinality(S) -> S] : \A i, j \in DOMAIN p : p[i] = p[j] => i = j}

\* fmt.Sprintf("%s = %s", k, v), as tokens.
Item(k, v) == <<k, " ", "=", " ", v>>

\* A Join that also ends the string with the separator.
RECURSIVE JoinTrailing(_, _)
JoinTrailing(items, sep) ==
    IF items = <<>> THEN <<>>
    ELSE Head(items) \o <<sep>> \o JoinTrailing(Tail(items), sep)

\* strings.Join(items, sep), as tokens.
RECURSIVE Join(_, _)
Join(items, sep) ==
    IF items = <<>> THEN <<>>
    ELSE IF Len(items) = 1 THEN Head(items)
    ELSE Head(items) \o <<sep>> \o Join(Tail(items), sep)

\* labelsToSelector(labels): the strings it may return, one per iteration
\* order.
LabelsToSelector(labels) ==
    {Join([i \in 1..Len(p) |-> Item(p[i], labels[p[i]])], ",") :
        p \in Orders(DOMAIN labels)}

\* The label mappings the list operations are called with under Spec.
CallLabels ==
    {NoLabels, [k \in {"a", "b"} |-> IF k = "a" THEN "1" ELSE "2"]}

\* The arguments of one call of operation o.
Args(o) ==
    [name : IF o \in NameOps THEN Names ELSE {""},
     payload : IF o \in BodyOps THEN Payloads ELSE {"nil"},
     labels : IF o \in ListOps THEN CallLabels ELSE {NoLabels}]

\* The query parameters a request may carry: none, or the label selector.
NoQuery == [k \in {} |-> <<>>]
Queries(o, a) ==
    IF o \in ListOps
    THEN {[k \in {"labelSelector"} |-> s] : s \in LabelsToSelector(a.labels)}
    ELSE {NoQuery}

\* The request descriptor each operation builds.
MkRequest(o, ns, a, q) ==
    [method |-> Method(o),
     path |-> Path(o, ns, a.name),
     query |-> q,
     requestBody |-> IF o \in BodyOps THEN a.payload ELSE "nil"]
NoRequest == [method |-> "", path |-> <<>>, query |-> NoQuery, requestBody |-> "nil"]
NoArgs == [name |-> "", payload |-> "nil", labels |-> NoLabels]

\* ------------------------------------------------------------------ logging

\* fmt.Sprintf("%v", labels), as tokens.
FormatLabels(labels) ==
    LET keys == SelectSeq(KeyOrder, LAMBDA k : k \in DOMAIN labels)
    IN  <<"map[">>
        \o Join([i \in 1..Len(keys) |-> <<keys[i], ":", labels[keys[i]]>>], " ")
        \o <<"]">>

\* A ReplaceSecret that logs the secret along with the name.
LogArgsWithSecret(o, a) ==
    CASE o \in ListOps -> <<FormatLabels(a.labels)>>
      [] o \in {"CreatePod", "CreateJob"} -> <<<<a.payload>>>>
      [] o \in {"PatchJob", "PatchJobStatus", "ReplaceSecret"} ->
            <<<<a.name>>, <<a.payload>>>>
      [] OTHER -> <<<<a.name>>>>

\* The arguments each operation hands to c.log, each formatted with %v.
LogArgs(o, a) ==
    CASE o \in ListOps -> <<FormatLabels(a.labels)>>
      [] o \in {"CreatePod", "CreateJob"} -> <<<<a.payload>>>>
      [] o \in {"PatchJob", "PatchJobStatus"} -> <<<<a.name>>, <<a.payload>>>>
      [] OTHER -> <<<<a.name>>>>

\* A log that prints nothing.
LogNothing(c, methodName, args) == <<>>

\* Client.log: the records the Logger receives, none when it is nil.
Log(c, methodName, args) ==
    IF c.Logger = "nil" THEN <<>>
    ELSE <<[method |-> methodName, args |-> args]>>

\* ------------------------------------------------------------------ clients

\* A nil *Client, and a nil *http.Client.
NilHTTPClient == [isNil |-> TRUE, MinVersion |-> "", RootCAs |-> {}]
NilClient ==
    [isNil |-> TRUE, Logger |-> "nil", baseURL |-> "", client |-> NilHTTPClient,
     token |-> "", namespace |-> "", fake |-> FALSE]

\* NewFakeClient().
NewFakeClient ==
    [isNil |-> FALSE, Logger |-> "nil", baseURL |-> "", client |-> NilHTTPClient,
     token |-> "", namespace |-> "default", fake |-> TRUE]

\* A file of the pod's filesystem: unreadable, or its content.
Unreadable == [readable |-> FALSE, data |-> ""]
File(data) == [readable |-> TRUE, data |-> data]

\* The service-account token file and CA file a pod may find.
TokenFiles == {Unreadable, File("tok")}
CAFiles == {Unreadable, File("pem"), File("garbage")}

\* ioutil.ReadFile: <<content, error>>.
ReadFile(f) ==
    IF f.readable THEN <<f.data, NilErr>>
    ELSE <<"", MkErr("*os.PathError", "open", "", <<>>, 0)>>

\* cp.AppendCertsFromPEM(certData): <<certificates added to the pool, ok>>.
AppendCertsFromPEM(certData) ==
    IF certData = "pem" THEN <<{"ca"}, TRUE>> ELSE <<{}, FALSE>>

\* NewClientInCluster(namespace) over the files f: <<*Client, error>>. The
\* result of AppendCertsFromPEM is not looked at.
NewClientInCluster(ns, f) ==
    LET tok == ReadFile(f.token)
        ca == ReadFile(f.ca)
    IN  IF tok[2] # NilErr THEN <<NilClient, tok[2]>>
        ELSE IF ca[2] # NilErr THEN <<NilClient, ca[2]>>
        ELSE <<[isNil |-> FALSE, Logger |-> "nil", baseURL |-> "https://kubernetes",
                client |-> [isNil |-> FALSE, MinVersion |-> "TLS12",
                            RootCAs |-> AppendCertsFromPEM(ca[1])[1]],
                token |-> tok[1], namespace |-> ns, fake |-> FALSE],
               NilErr>>

Namespaces == {"default"}

\* What the caller may set the exported field Logger to.
Loggers == {"nil", "logger"}

\* -------------------------------------------------------------------- state

VARIABLES
    fs,       \* the pod's files: [token, ca]
    client,   \* the shared Client, NilClient until one is constructed
    bootErr,  \* the error the constructor returned
    pc,       \* pc[t]: where goroutine t is in its current call
    op,       \* op[t]: the public operation t is running
    arg,      \* arg[t]: the arguments it was called with
    req,      \* req[t]: the request descriptor r
    retries,  \* retries[t]: requestRetry's loop counter
    backoff,  \* backoff[t]: requestRetry's backoff, in seconds
    resp,     \* resp[t]: requestRetry's resp
    err,      \* err[t]: requestRetry's err
    out,      \* out[t]: what requestRetry returned
    result,   \* result[t]: what the public operation returned
    events,   \* events[t]: what the current call of t has done so far, in order
    logged,   \* logged[t]: the records the current call of t gave the Logger
    sent,     \* sent[t]: the descriptors the current call handed to doRequest
    lts       \* a labelsToSelector call on its own: [labels, sel, done]

vars ==
    <<fs, client, bootErr, pc, op, arg, req, retries, backoff, resp, err, out,
      result, events, logged, sent, lts>>

\* The variables of the calls, those of construction and those of lts.
callVars ==
    <<pc, op, arg, req, retries, backoff, resp, err, out, result, events, logged, sent>>
bootVars == <<fs, client, bootErr>>

NoOut == [bytes |-> NilBytes, err |-> NilErr]
NoResult == [val |-> ZeroValue, bytes |-> NilBytes, err |-> NilErr]

\* One entry of events: an attempt, that is one doRequest (arg: the status code
\* answered, 0 when c.client.Do failed, -1 when doRequest failed before it
\* reached c.client.Do), a sleep (arg: its duration in seconds), a body read
\* (arg: 1 when it succeeded), a body close, a deserialization (arg: 1 when it
\* succeeded).
Event(ev, arg_) == [ev |-> ev, arg |-> arg_]

Attempts(t) == Cardinality({i \in 1..Len(events[t]) : events[t][i].ev = "attempt"})
SleepIdx(t) == {i \in 1..Len(events[t]) : events[t][i].ev = "sleep"}
Sleeps(t) == Cardinality(SleepIdx(t))

\* No goroutine is in a call.
InitCalls ==
    /\ pc = [t \in Threads |-> "idle"]
    /\ op = [t \in Threads |-> "none"]
    /\ arg = [t \in Threads |-> NoArgs]
    /\ req = [t \in Threads |-> NoRequest]
    /\ retries = [t \in Threads |-> 0]
    /\ backoff = [t \in Threads |-> 0]
    /\ resp = [t \in Threads |-> NilResp]
    /\ err = [t \in Threads |-> NilErr]
    /\ out = [t \in Threads |-> NoOut]
    /\ result = [t \in Threads |-> NoResult]
    /\ events = [t \in Threads |-> <<>>]
    /\ logged = [t \in Threads |-> <<>>]
    /\ sent = [t \in Threads |-> {}]

NoLts == [labels |-> NoLabels, sel |-> <<>>, done |-> FALSE]

\* The process starts: no Client yet, the files as the pod has them.
Init ==
    /\ fs \in [token : TokenFiles, ca : CAFiles]
    /\ client = NilClient
    /\ bootErr = NilErr
    /\ InitCalls
    /\ lts = NoLts

\* ------------------------------------------------------------- construction

\* NewFakeClient() is called, and the caller sets Logger to l.
NewFake(l) ==
    /\ client.isNil
    /\ bootErr = NilErr
    /\ client' = [NewFakeClient EXCEPT !.Logger = l]
    /\ UNCHANGED <<fs, bootErr, lts>>
    /\ UNCHANGED callVars

\* NewClientInCluster(ns) is called; when it returns a Client the caller sets
\* Logger to l.
NewInCluster(ns, l) ==
    /\ client.isNil
    /\ bootErr = NilErr
    /\ LET made == NewClientInCluster(ns, fs)
       IN  /\ client' = IF made[2] = NilErr THEN [made[1] EXCEPT !.Logger = l]
                        ELSE made[1]
           /\ bootErr' = made[2]
    /\ UNCHANGED <<fs, lts>>
    /\ UNCHANGED callVars

\* ------------------------------------------------------------------ actions

\* A public operation is called: it logs, builds its request descriptor and
\* calls Client.request (GetLog: requestRetry).
Call(t, o, a, q) ==
    /\ ~client.isNil
    /\ pc[t] = "idle"
    /\ op' = [op EXCEPT ![t] = o]
    /\ arg' = [arg EXCEPT ![t] = a]
    /\ logged' = [logged EXCEPT ![t] = Log(client, o, LogArgs(o, a))]
    /\ req' = [req EXCEPT ![t] = MkRequest(o, client.namespace, a, q)]
    /\ pc' = [pc EXCEPT ![t] = "requestRetry"]
    /\ retries' = [retries EXCEPT ![t] = 0]
    /\ backoff' = [backoff EXCEPT ![t] = 0]
    /\ resp' = [resp EXCEPT ![t] = NilResp]
    /\ err' = [err EXCEPT ![t] = NilErr]
    /\ out' = [out EXCEPT ![t] = NoOut]
    /\ result' = [result EXCEPT ![t] = NoResult]
    /\ events' = [events EXCEPT ![t] = <<>>]
    /\ sent' = [sent EXCEPT ![t] = {}]
    /\ UNCHANGED <<bootVars, lts>>

\* A fake Client that answers with no bytes at all.
FakeBodyEmpty == EmptyBody

\* What a fake Client answers: []byte("{}").
FakeBody == EmptyObject

\* requestRetry, up to the loop: the fake short-circuit, else the locals.
Enter(t) ==
    /\ pc[t] = "requestRetry"
    /\ IF client.fake
       THEN /\ out' = [out EXCEPT ![t] = [bytes |-> Bytes(FakeBody), err |-> NilErr]]
            /\ pc' = [pc EXCEPT ![t] = "returned"]
            /\ UNCHANGED <<retries, backoff>>
       ELSE /\ backoff' = [backoff EXCEPT ![t] = retryDelay]
            /\ retries' = [retries EXCEPT ![t] = 0]
            /\ pc' = [pc EXCEPT ![t] = "loop"]
            /\ UNCHANGED out
    /\ UNCHANGED <<bootVars, lts, op, arg, req, resp, err, result, events, logged, sent>>

\* A loop condition that is off by one.
LoopContinuesInclusive(n) == n <= maxRetries

\* The loop condition `retries < maxRetries`.
LoopContinues(n) == n < maxRetries

\* A backoff that grows by the initial delay instead of doubling.
NextBackoffLinear(b) == b + retryDelay

\* `backoff *= 2`.
NextBackoff(b) == b * 2

\* json.Marshal(body) succeeds.
Marshals(body) == body # "unencodable"

\* http.NewRequest parses the URL c.baseURL + urlPath.
UrlParses(urlPath) == \A i \in DOMAIN urlPath : urlPath[i] # "%zz"

\* The error of the n-th doRequest of a call when it fails before it reaches
\* c.client.Do, NilErr when it does not: the body does not marshal, or the
\* request cannot be built.
DoRequestLocalErr(r, n) ==
    IF r.requestBody # "nil" /\ ~Marshals(r.requestBody)
    THEN MkErr("*json.UnsupportedTypeError", "json: unsupported type", "", <<>>, n)
    ELSE IF ~UrlParses(r.path)
    THEN MkErr("*url.Error", "parse", "", <<>>, n)
    ELSE NilErr

\* What requestRetry passes to doRequest.
Descriptor(r) ==
    [method |-> r.method, urlPath |-> r.path, query |-> r.query, body |-> r.requestBody]

\* A doRequest that fails before any network call and ends the loop at once.
AttemptFailsLocallyFatal(t) ==
    /\ pc[t] = "loop"
    /\ LoopContinues(retries[t])
    /\ DoRequestLocalErr(req[t], Attempts(t) + 1) # NilErr
    /\ err' = [err EXCEPT ![t] = DoRequestLocalErr(req[t], Attempts(t) + 1)]
    /\ resp' = [resp EXCEPT ![t] = NilResp]
    /\ events' = [events EXCEPT ![t] = Append(@, Event("attempt", -1))]
    /\ sent' = [sent EXCEPT ![t] = @ \cup {Descriptor(req[t])}]
    /\ pc' = [pc EXCEPT ![t] = "afterLoop"]
    /\ UNCHANGED <<bootVars, lts, op, arg, req, retries, backoff, out, result, logged>>

\* One iteration's doRequest fails before any network call: err is set and the
\* loop goes on to sleep.
AttemptFailsLocally(t) ==
    /\ pc[t] = "loop"
    /\ LoopContinues(retries[t])
    /\ DoRequestLocalErr(req[t], Attempts(t) + 1) # NilErr
    /\ err' = [err EXCEPT ![t] = DoRequestLocalErr(req[t], Attempts(t) + 1)]
    /\ resp' = [resp EXCEPT ![t] = NilResp]
    /\ events' = [events EXCEPT ![t] = Append(@, Event("attempt", -1))]
    /\ sent' = [sent EXCEPT ![t] = @ \cup {Descriptor(req[t])}]
    /\ pc' = [pc EXCEPT ![t] = "sleep"]
    /\ UNCHANGED <<bootVars, lts, op, arg, req, retries, backoff, out, result, logged>>

\* An attempt that uses the request body up: the descriptor is left without it.
AttemptFailsConsuming(t, why) ==
    /\ pc[t] = "loop"
    /\ LoopContinues(retries[t])
    /\ DoRequestLocalErr(req[t], Attempts(t) + 1) = NilErr
    /\ err' = [err EXCEPT ![t] = TransportErr(why, Attempts(t) + 1)]
    /\ resp' = [resp EXCEPT ![t] = NilResp]
    /\ events' = [events EXCEPT ![t] = Append(@, Event("attempt", 0))]
    /\ sent' = [sent EXCEPT ![t] = @ \cup {Descriptor(req[t])}]
    /\ req' = [req EXCEPT ![t].requestBody = "nil"]
    /\ pc' = [pc EXCEPT ![t] = "sleep"]
    /\ UNCHANGED <<bootVars, lts, op, arg, retries, backoff, out, result, logged>>

\* One iteration's doRequest fails in c.client.Do: err is set and the loop
\* goes on to sleep.
AttemptFails(t, why) ==
    /\ pc[t] = "loop"
    /\ LoopContinues(retries[t])
    /\ DoRequestLocalErr(req[t], Attempts(t) + 1) = NilErr
    /\ err' = [err EXCEPT ![t] = TransportErr(why, Attempts(t) + 1)]
    /\ resp' = [resp EXCEPT ![t] = NilResp]
    /\ events' = [events EXCEPT ![t] = Append(@, Event("attempt", 0))]
    /\ sent' = [sent EXCEPT ![t] = @ \cup {Descriptor(req[t])}]
    /\ pc' = [pc EXCEPT ![t] = "sleep"]
    /\ UNCHANGED <<bootVars, lts, op, arg, req, retries, backoff, out, result, logged>>

\* One iteration's doRequest returns a response: err is nil and the loop breaks.
AttemptAnswers(t, code, data, bad) ==
    /\ pc[t] = "loop"
    /\ LoopContinues(retries[t])
    /\ DoRequestLocalErr(req[t], Attempts(t) + 1) = NilErr
    /\ err' = [err EXCEPT ![t] = NilErr]
    /\ resp' = [resp EXCEPT ![t] = MkResp(code, data, bad)]
    /\ events' = [events EXCEPT ![t] = Append(@, Event("attempt", code))]
    /\ sent' = [sent EXCEPT ![t] = @ \cup {Descriptor(req[t])}]
    /\ pc' = [pc EXCEPT ![t] = "afterLoop"]
    /\ UNCHANGED <<bootVars, lts, op, arg, req, retries, backoff, out, result, logged>>

\* A sleep that doubles the backoff of every call in progress.
SleepShared(t) ==
    /\ pc[t] = "sleep"
    /\ events' = [events EXCEPT ![t] = Append(@, Event("sleep", backoff[t]))]
    /\ backoff' = [u \in Threads |-> NextBackoff(backoff[u])]
    /\ retries' = [retries EXCEPT ![t] = @ + 1]
    /\ pc' = [pc EXCEPT ![t] = "loop"]
    /\ UNCHANGED <<bootVars, lts, op, arg, req, resp, err, out, result, logged, sent>>

\* After a failed iteration: time.Sleep(backoff); backoff *= 2; retries++.
Sleep(t) ==
    /\ pc[t] = "sleep"
    /\ events' = [events EXCEPT ![t] = Append(@, Event("sleep", backoff[t]))]
    /\ backoff' = [backoff EXCEPT ![t] = NextBackoff(@)]
    /\ retries' = [retries EXCEPT ![t] = @ + 1]
    /\ pc' = [pc EXCEPT ![t] = "loop"]
    /\ UNCHANGED <<bootVars, lts, op, arg, req, resp, err, out, result, logged, sent>>

\* The loop condition fails: the loop ends with the last err.
LoopExit(t) ==
    /\ pc[t] = "loop"
    /\ ~LoopContinues(retries[t])
    /\ pc' = [pc EXCEPT ![t] = "afterLoop"]
    /\ UNCHANGED <<bootVars, lts, op, arg, req, retries, backoff, resp, err, out,
                   result, events, logged, sent>>

\* After the loop, err != nil: return nil, err.
GiveUp(t) ==
    /\ pc[t] = "afterLoop"
    /\ err[t] # NilErr
    /\ out' = [out EXCEPT ![t] = [bytes |-> NilBytes, err |-> err[t]]]
    /\ pc' = [pc EXCEPT ![t] = "returned"]
    /\ UNCHANGED <<bootVars, lts, op, arg, req, retries, backoff, resp, err, result,
                   events, logged, sent>>

\* An interpreter that hands back what was read along with the read error.
InterpretedPartial(r) ==
    LET read == ReadAll(r.Body)
    IN  IF read[2] # NilErr THEN <<Bytes(read[1]), read[2]>> ELSE Classify(r, read[1])

\* An interpreter that looks at the status before it looks at the read error.
InterpretedStatusFirst(r) ==
    LET read == ReadAll(r.Body)
    IN  IF r.StatusCode = 409 \/ r.StatusCode < 200 \/ r.StatusCode > 299
        THEN Classify(r, read[1])
        ELSE IF read[2] # NilErr THEN <<NilBytes, read[2]>>
        ELSE Classify(r, read[1])

\* What requestRetry returns for a response: the read error, or the
\* classification of the status.
Interpreted(r) ==
    LET read == ReadAll(r.Body)
    IN  IF read[2] # NilErr THEN <<NilBytes, read[2]>> ELSE Classify(r, read[1])

\* A body that is closed only once it has been read to the end.
BodyEventsLeaky(r) ==
    IF r.Body.readFails THEN <<Event("read", 0)>>
    ELSE <<Event("read", 1), Event("close", 0)>>

\* What happens to the body of response r: `defer resp.Body.Close()` is set up
\* before ioutil.ReadAll, so the body is read and then closed as requestRetry
\* returns, whatever the read returned.
BodyEvents(r) ==
    <<Event("read", IF r.Body.readFails THEN 0 ELSE 1), Event("close", 0)>>

\* After the loop, err == nil: the body is read, the status classified, and
\* the deferred resp.Body.Close() runs as requestRetry returns.
Interpret(t) ==
    /\ pc[t] = "afterLoop"
    /\ err[t] = NilErr
    /\ LET ret == Interpreted(resp[t])
       IN  /\ out' = [out EXCEPT ![t] = [bytes |-> ret[1], err |-> ret[2]]]
           /\ err' = [err EXCEPT ![t] = ReadAll(resp[t].Body)[2]]
    /\ events' = [events EXCEPT ![t] = @ \o BodyEvents(resp[t])]
    /\ pc' = [pc EXCEPT ![t] = "returned"]
    /\ UNCHANGED <<bootVars, lts, op, arg, req, retries, backoff, resp, result,
                   logged, sent>>

\* A Client.request that deserializes whatever requestRetry returned.
DeserializesAlways(o, slotNonNil) == slotNonNil

\* Client.request deserializes when requestRetry succeeded and ret != nil.
Deserializes(o, slotNonNil) == o.err = NilErr /\ slotNonNil

\* Client.request after requestRetry returned o: <<*ret afterwards, error>>.
Request(o, slotNonNil, v) ==
    IF Deserializes(o, slotNonNil) THEN Unmarshal(o.bytes.data, v)
    ELSE <<v, o.err>>

\* requestRetry has returned: GetLog returns its result as it is, every other
\* operation returns what Client.request makes of it.
Deliver(t) ==
    /\ pc[t] = "returned"
    /\ IF op[t] \in RawOps
       THEN /\ result' = [result EXCEPT ![t] =
                    [val |-> ZeroValue, bytes |-> out[t].bytes, err |-> out[t].err]]
            /\ UNCHANGED events
       ELSE LET got == Request(out[t], op[t] \in SlotOps, ZeroValue)
            IN  /\ result' = [result EXCEPT ![t] =
                        [val |-> got[1], bytes |-> NilBytes, err |-> got[2]]]
                /\ events' = [events EXCEPT ![t] =
                        IF Deserializes(out[t], op[t] \in SlotOps)
                        THEN Append(@, Event("unmarshal", IF got[2] = NilErr THEN 1 ELSE 0))
                        ELSE @]
    /\ pc' = [pc EXCEPT ![t] = "done"]
    /\ UNCHANGED <<bootVars, lts, op, arg, req, retries, backoff, resp, err, out,
                   logged, sent>>

\* The caller has taken what the operation returned: the call's frame is gone
\* and the goroutine may call again.
Return(t) ==
    /\ pc[t] = "done"
    /\ pc' = [pc EXCEPT ![t] = "idle"]
    /\ op' = [op EXCEPT ![t] = "none"]
    /\ arg' = [arg EXCEPT ![t] = NoArgs]
    /\ req' = [req EXCEPT ![t] = NoRequest]
    /\ retries' = [retries EXCEPT ![t] = 0]
    /\ backoff' = [backoff EXCEPT ![t] = 0]
    /\ resp' = [resp EXCEPT ![t] = NilResp]
    /\ err' = [err EXCEPT ![t] = NilErr]
    /\ out' = [out EXCEPT ![t] = NoOut]
    /\ result' = [result EXCEPT ![t] = NoResult]
    /\ events' = [events EXCEPT ![t] = <<>>]
    /\ logged' = [logged EXCEPT ![t] = <<>>]
    /\ sent' = [sent EXCEPT ![t] = {}]
    /\ UNCHANGED <<bootVars, lts>>

Step(t) ==
    \/ \E o \in Ops : \E a \in Args(o) : \E q \in Queries(o, a) : Call(t, o, a, q)
    \/ Enter(t)
    \/ AttemptFailsLocally(t)
    \/ \E why \in TransportFailures : AttemptFails(t, why)
    \/ \E code \in Statuses, data \in Bodies, bad \in BOOLEAN :
          AttemptAnswers(t, code, data, bad)
    \/ Sleep(t)
    \/ LoopExit(t)
    \/ GiveUp(t)
    \/ Interpret(t)
    \/ Deliver(t)
    \/ Return(t)

Next ==
    \/ \E l \in Loggers : NewFake(l)
    \/ \E ns \in Namespaces, l \in Loggers : NewInCluster(ns, l)
    \/ \E t \in Sequential : Step(t)

\* One process: a Client is constructed, then one goroutine calls it again and
\* again.
Spec == Init /\ [][Next]_vars

\* The same, with every step that can be taken eventually taken: a transport
\* attempt, a body read and a sleep all return.
SpecLive == Spec /\ WF_vars(Next)

\* ------------------------------------------------- concurrent specification

\* A Client has been constructed from readable files and is shared by every
\* goroutine.
InitConc ==
    /\ fs = [token |-> File("tok"), ca |-> File("pem")]
    /\ client \in {NewFakeClient}
                  \cup {NewClientInCluster(ns, fs)[1] : ns \in Namespaces}
    /\ bootErr = NilErr
    /\ InitCalls
    /\ lts = NoLts

\* The steps of goroutine t, over a narrower choice of calls and answers.
StepConc(t) ==
    \/ \E a \in Args("GetPod") : a.name = "n" /\ Call(t, "GetPod", a, NoQuery)
    \/ Enter(t)
    \/ AttemptFails(t, "connection refused")
    \/ \E code \in {200, 409} : AttemptAnswers(t, code, EmptyObject, FALSE)
    \/ Sleep(t)
    \/ LoopExit(t)
    \/ GiveUp(t)
    \/ Interpret(t)
    \/ Deliver(t)
    \/ Return(t)

NextConc == \E t \in Threads : StepConc(t)

\* Every goroutine calls the one shared Client, in any interleaving.
SpecConc == InitConc /\ [][NextConc]_vars

\* ------------------------------------------- labelsToSelector on its own

InitSel ==
    /\ fs = [token |-> Unreadable, ca |-> Unreadable]
    /\ client = NilClient
    /\ bootErr = NilErr
    /\ InitCalls
    /\ lts \in [labels : LabelMaps, sel : {<<>>}, done : {FALSE}]

\* labelsToSelector(lts.labels) is called and returns.
ApplySelector ==
    /\ ~lts.done
    /\ \E s \in LabelsToSelector(lts.labels) :
          lts' = [lts EXCEPT !.sel = s, !.done = TRUE]
    /\ UNCHANGED bootVars
    /\ UNCHANGED callVars

NextSel == ApplySelector

SpecSel == InitSel /\ [][NextSel]_vars

\* ------------------------------------------------------- reading the events

RECURSIVE Pow2(_)
Pow2(n) == IF n = 0 THEN 1 ELSE 2 * Pow2(n - 1)

\* requestRetry of goroutine t has returned.
Returned(t) == pc[t] \in {"returned", "done"}

AttemptIdx(t) == {i \in 1..Len(events[t]) : events[t][i].ev = "attempt"}
FailedIdx(t) == {i \in AttemptIdx(t) : events[t][i].arg <= 0}
AnsweredIdx(t) == {i \in AttemptIdx(t) : events[t][i].arg > 0}

\* The attempts that reached c.client.Do, and those that failed before it.
NetworkIdx(t) == {i \in AttemptIdx(t) : events[t][i].arg >= 0}
LocalIdx(t) == {i \in AttemptIdx(t) : events[t][i].arg = -1}

\* The status of the response the call obtained, 0 when it obtained none.
AnsweredStatus(t) ==
    IF AnsweredIdx(t) = {} THEN 0
    ELSE events[t][CHOOSE i \in AnsweredIdx(t) : TRUE].arg

\* The call read the body of its response to the end.
BodyRead(t) == \E i \in 1..Len(events[t]) : events[t][i] = Event("read", 1)

IsSleep(e) == e.ev = "sleep"

\* The durations slept, in order.
SleepDurations(t) ==
    LET s == SelectSeq(events[t], IsSleep) IN [i \in 1..Len(s) |-> s[i].arg]

\* The events after position i that are transport attempts or sleeps.
RetryWorkAfter(t, i) ==
    {j \in (i + 1)..Len(events[t]) : events[t][j].ev \in {"attempt", "sleep"}}

\* ------------------------------------------------------------------- claims

\* C1: on a non-fake Client, a requestRetry call whose first K attempts fail
\* (0 <= K < 8) and whose attempt K+1 is answered with a 2xx response, the body
\* of which is read, has made exactly K+1 attempts and slept exactly K times,
\* for 2s, 4s, ..., 2s * 2^(K-1) in that order, and returns the response body
\* with a nil error.
C1_RetryThenSuccess ==
    \A t \in Threads : \A K \in 0..7 :
        (/\ Returned(t)
         /\ ~client.fake
         /\ Cardinality(FailedIdx(t)) = K
         /\ AnsweredStatus(t) \in 200..299
         /\ BodyRead(t))
        => /\ Attempts(t) = K + 1
           /\ \A i \in FailedIdx(t), j \in AnsweredIdx(t) : i < j
           /\ Sleeps(t) = K
           /\ SleepDurations(t) = [i \in 1..K |-> 2 * Pow2(i - 1)]
           /\ \A i \in 2..K : SleepDurations(t)[i] = 2 * SleepDurations(t)[i - 1]
           /\ out[t] = [bytes |-> Bytes(resp[t].Body.data), err |-> NilErr]

\* C1's case: seven failures, then a 2xx answer whose body is returned.
C1_Witness ==
    \E t \in Threads :
        /\ pc[t] = "done"
        /\ ~client.fake
        /\ Cardinality(FailedIdx(t)) = 7
        /\ AnsweredStatus(t) = 200
        /\ BodyRead(t)
        /\ out[t].bytes = Bytes(NamedObject)

\* C2: on a non-fake Client, no call makes more than 8 attempts, and a
\* requestRetry call whose every attempt fails makes exactly 8 and returns nil
\* bytes with the error the 8th attempt returned, as doRequest returned it; the
\* public operation returns that same error.
C2_ExhaustionReturnsLastError ==
    \A t \in Threads :
        /\ Attempts(t) <= 8
        /\ (Returned(t) /\ ~client.fake /\ AnsweredIdx(t) = {})
           => /\ Attempts(t) = 8
              /\ out[t].bytes = NilBytes
              /\ out[t].err \in {TransportErr(why, 8) : why \in TransportFailures}
                                  \cup {DoRequestLocalErr(req[t], 8)}
              /\ out[t].err # NilErr
              /\ out[t].err = err[t]
              /\ pc[t] = "done" => result[t].err = out[t].err

\* C2's case: eight failed attempts, the call has returned the last error.
C2_Witness ==
    \E t \in Threads :
        /\ pc[t] = "done"
        /\ ~client.fake
        /\ Cardinality(FailedIdx(t)) = 8
        /\ result[t].err = TransportErr("i/o timeout", 8)

\* C3, as the spec states it: sleeps happen only between attempts, so no sleep
\* is the first thing a call does and every sleep of a call that has returned is
\* followed by another attempt of that call (a call of 8 failed attempts has
\* slept 7 times).
C3_SleepsOnlyBetweenAttempts ==
    \A t \in Threads :
        /\ (events[t] # <<>> => events[t][1].ev # "sleep")
        /\ Returned(t) =>
              /\ \A i \in SleepIdx(t) :
                    i < Len(events[t]) /\ events[t][i + 1].ev = "attempt"
              /\ Attempts(t) = 8 /\ AnsweredIdx(t) = {} => Sleeps(t) = 7

\* C4: once an attempt is answered with status 409, on whichever attempt, the
\* call makes no further attempt and no further sleep, and, the body having been
\* read, returns nil bytes and a conflict error that carries the body text.
C4_ConflictNotRetried ==
    \A t \in Threads :
        /\ \A i \in AnsweredIdx(t) :
              events[t][i].arg = 409 => RetryWorkAfter(t, i) = {}
        /\ (Returned(t) /\ AnsweredStatus(t) = 409 /\ BodyRead(t))
           => /\ out[t].bytes = NilBytes
              /\ out[t].err =
                    MkErr("*errors.errorString", "body: %s", "", resp[t].Body.data, 0)
              /\ pc[t] = "done" => result[t].err = out[t].err

\* C4's case: a 409 on the 8th attempt, after seven failures, returned as a
\* conflict carrying the body.
C4_Witness ==
    \E t \in Threads :
        /\ pc[t] = "done"
        /\ Cardinality(FailedIdx(t)) = 7
        /\ AnsweredStatus(t) = 409
        /\ result[t].err.fmt = "body: %s"
        /\ result[t].err.body = NamedObject

\* C5: once an attempt is answered with a status outside [200,299] other than
\* 409, the call makes no further attempt and, the body having been read,
\* returns nil bytes and an error made of the status text and the body; a
\* status inside [200,299] returns the body read with a nil error.
C5_StatusClassification ==
    \A t \in Threads :
        /\ \A i \in AnsweredIdx(t) :
              events[t][i].arg \notin (200..299) \cup {409}
              => RetryWorkAfter(t, i) = {}
        /\ (Returned(t) /\ AnsweredStatus(t) # 0 /\ BodyRead(t))
           => IF AnsweredStatus(t) \in 200..299
              THEN out[t] = [bytes |-> Bytes(resp[t].Body.data), err |-> NilErr]
              ELSE AnsweredStatus(t) # 409
                   => /\ out[t].bytes = NilBytes
                      /\ out[t].err =
                            MkErr("*errors.errorString",
                                  "response has status \"%s\" and body \"%s\"",
                                  StatusText(AnsweredStatus(t)), resp[t].Body.data, 0)
                      /\ pc[t] = "done" => result[t].err = out[t].err

\* C5's case: a 500 on the first attempt, returned as a failure that echoes
\* the status text and the body.
C5_Witness ==
    \E t \in Threads :
        /\ pc[t] = "done"
        /\ Attempts(t) = 1
        /\ AnsweredStatus(t) = 500
        /\ result[t].err.status = "500 Internal Server Error"
        /\ result[t].err.body = NamedObject
        /\ result[t].bytes = NilBytes

\* C6: on a Client built by NewFakeClient, every operation, after any sequence
\* of earlier calls, makes no transport attempt and no sleep and returns
\* success: GetLog the bytes `{}`, every other operation a zero-valued result,
\* with a nil error.
C6_FakeShortCircuits ==
    \A t \in Threads :
        (~client.isNil /\ client.fake)
        => /\ client = [NewFakeClient EXCEPT !.Logger = client.Logger]
           /\ AttemptIdx(t) = {}
           /\ SleepIdx(t) = {}
           /\ pc[t] = "done"
              => /\ result[t].err = NilErr
                 /\ op[t] \in RawOps => result[t].bytes = Bytes(EmptyObject)
                 /\ op[t] \notin RawOps => result[t].val = ZeroValue

\* C6's case: a fake Client has answered an operation that deserializes what
\* requestRetry returned.
C6_Witness ==
    \E t \in Threads :
        /\ client.fake
        /\ pc[t] = "done"
        /\ op[t] = "PatchJobStatus"
        /\ events[t] = <<Event("unmarshal", 1)>>

\* C7: a requestRetry call that returns, returns bytes or an error and never
\* both or neither: bytes exactly when the Client is fake or a 2xx response was
\* read, a conflict error exactly when a 409 response was read, and another
\* error otherwise; the public operation returns an error whenever requestRetry
\* did.
C7_ExactlyOneOutcome ==
    \A t \in Threads :
        Returned(t)
        => /\ out[t].bytes.isNil <=> out[t].err # NilErr
           /\ out[t].err = NilErr
              <=> (client.fake \/ (AnsweredStatus(t) \in 200..299 /\ BodyRead(t)))
           /\ out[t].err.fmt = "body: %s" <=> (AnsweredStatus(t) = 409 /\ BodyRead(t))
           /\ (pc[t] = "done" /\ out[t].err # NilErr) => result[t].err = out[t].err
           /\ (pc[t] = "done" /\ result[t].err # NilErr) => result[t].bytes.isNil

\* C7's case: calls that returned with each of the outcomes.
C7_Witness ==
    \E t \in Threads :
        /\ pc[t] = "done"
        /\ op[t] = "GetLog"
        /\ AnsweredStatus(t) = 404
        /\ result[t].bytes.isNil
        /\ result[t].err.status = "404 Not Found"

\* C8: Client.request deserializes only when requestRetry returned no error
\* and the result slot is non-nil; a failed deserialization is returned as an
\* error of json's own types, which no transport or HTTP failure has, and is
\* the last thing the call does: no attempt and no sleep follows it.
C8_DeserializationFailure ==
    \A t \in Threads : \A i \in 1..Len(events[t]) :
        events[t][i].ev = "unmarshal"
        => /\ out[t].err = NilErr
           /\ op[t] \in SlotOps
           /\ i = Len(events[t])
           /\ pc[t] = "done"
           /\ events[t][i].arg = 0
              => /\ result[t].err.dyn \in {"*json.SyntaxError", "*json.UnmarshalTypeError"}
                 /\ result[t].err.dyn \notin {"*url.Error", "*errors.errorString"}
                 /\ result[t].val = ZeroValue
           /\ events[t][i].arg = 1 => result[t].err = NilErr

\* C8's case: a 200 whose body is a number, not an object, failed to
\* deserialize after three failed attempts.
C8_Witness ==
    \E t \in Threads :
        /\ pc[t] = "done"
        /\ op[t] = "GetPod"
        /\ Cardinality(FailedIdx(t)) = 3
        /\ resp[t].Body.data = NumberBody
        /\ events[t][Len(events[t])] = Event("unmarshal", 0)
        /\ result[t].err.dyn = "*json.UnmarshalTypeError"

\* C9, as the spec states it: a 2xx response with an empty body, to a call with
\* a non-nil result slot, is treated as an empty object: a nil error and a
\* zero-valued result, as for the body `{}`.
C9_EmptyBodyIsEmptyObject ==
    \A t \in Threads :
        (/\ pc[t] = "done"
         /\ op[t] \in SlotOps
         /\ AnsweredStatus(t) \in 200..299
         /\ BodyRead(t)
         /\ resp[t].Body.data = EmptyBody)
        => /\ result[t].err = NilErr
           /\ result[t].val = ZeroValue

\* C10, as the spec states it: the kind test on the returned error holds for
\* the errors a 409 response produces and for no other error.
C10_ConflictKindTellsConflict ==
    \A t \in Threads :
        pc[t] = "done"
        => (IsConflictError(result[t].err)
            <=> (AnsweredStatus(t) = 409 /\ BodyRead(t)))

\* ------------------------------------------------- what a call should hold

\* What requestRetry of goroutine t returns, from what that call alone was
\* answered: the fake body, the last doRequest error, or the interpretation of
\* its response.
OwnOut(t) ==
    IF client.fake THEN [bytes |-> Bytes(EmptyObject), err |-> NilErr]
    ELSE IF AnsweredIdx(t) = {} THEN [bytes |-> NilBytes, err |-> err[t]]
    ELSE [bytes |-> Interpreted(resp[t])[1], err |-> Interpreted(resp[t])[2]]

\* Everything goroutine t holds of its call.
Local(t) ==
    <<pc[t], op[t], arg[t], req[t], retries[t], backoff[t], resp[t], err[t],
      out[t], result[t], events[t], logged[t], sent[t]>>

CloseIdx(t) == {i \in 1..Len(events[t]) : events[t][i].ev = "close"}

\* C11: with any number of goroutines calling one shared Client in any
\* interleaving, no step of a call changes the Client, a step changes the
\* state of one call only, and each call's counter and backoff are its own:
\* the counter is the number of its own sleeps (0 at first), the backoff is 2s
\* doubled once per own sleep (2s at first), it makes at most 8 attempts, and
\* what it returns follows from its own transport results.
C11_CallsAreIndependent ==
    /\ [](\A t \in Threads :
            /\ (pc[t] \in {"loop", "sleep", "afterLoop"})
               => /\ retries[t] = Sleeps(t)
                  /\ backoff[t] = 2 * Pow2(Sleeps(t))
                  /\ Cardinality(FailedIdx(t))
                       = Sleeps(t) + (IF pc[t] = "sleep" THEN 1 ELSE 0)
            /\ (pc[t] = "loop" /\ events[t] = <<>>)
               => (retries[t] = 0 /\ backoff[t] = 2)
            /\ Attempts(t) <= 8
            /\ Returned(t) => out[t] = OwnOut(t))
    /\ [][/\ client' = client
          /\ \A t, u \in Threads :
                t # u => (Local(t)' = Local(t) \/ Local(u)' = Local(u))]_vars

\* C11's case: two calls in flight on the shared Client, at different points of
\* their own retry loops.
C11_Witness ==
    \E t, u \in Threads :
        /\ t # u
        /\ ~client.fake
        /\ pc[t] = "sleep" /\ Sleeps(t) = 5 /\ backoff[t] = 64
        /\ pc[u] = "loop" /\ Sleeps(u) = 2 /\ backoff[u] = 8

\* C12: provided every step that is begun returns, every call that enters
\* requestRetry returns; by then it was answered or has made 8 attempts, and it
\* never makes more than 8.
C12_EveryCallReturns ==
    /\ [](\A t \in Threads :
            /\ Attempts(t) <= 8
            /\ (Returned(t) /\ ~client.fake)
               => (AnsweredIdx(t) # {} \/ Attempts(t) = 8))
    /\ \A t \in Threads : (pc[t] = "requestRetry") ~> (pc[t] = "done")

\* C12's case: a call that returned a success on its 8th and last attempt.
C12_Witness ==
    \E t \in Threads :
        /\ pc[t] = "done"
        /\ Attempts(t) = 8
        /\ AnsweredStatus(t) = 299
        /\ result[t].err = NilErr

\* C13: a call on a Client with a non-nil Logger, fake or not, has given the
\* Logger exactly one record, which names the operation, before requestRetry is
\* entered and so before any attempt; with a nil Logger it has given none, and
\* it returns what its answers alone determine.
C13_OneLogRecordBeforeDispatch ==
    \A t \in Threads :
        /\ pc[t] = "idle" => logged[t] = <<>>
        /\ pc[t] = "requestRetry" => events[t] = <<>>
        /\ (pc[t] # "idle" /\ client.Logger # "nil")
           => /\ Len(logged[t]) = 1
              /\ logged[t][1].method = op[t]
        /\ (pc[t] # "idle" /\ client.Logger = "nil")
           => /\ logged[t] = <<>>
              /\ Returned(t) => out[t] = OwnOut(t)
              /\ pc[t] = "done"
                 => result[t].err
                      = Request(OwnOut(t), op[t] \in SlotOps /\ op[t] \notin RawOps,
                                ZeroValue)[2]

\* C13's case: a fake Client with a Logger has logged GetPod(n) and is about
\* to enter requestRetry.
C13_Witness ==
    \E t \in Threads :
        /\ client.fake
        /\ client.Logger = "logger"
        /\ pc[t] = "requestRetry"
        /\ logged[t] = <<[method |-> "GetPod", args |-> << <<"n">> >>]>>

\* C14: the record ReplaceSecret logs is made of the name alone, so it is the
\* same whatever the Secret; no record holds the Client's token; the records of
\* CreatePod, CreateJob, PatchJob and PatchJobStatus hold the payload.
C14_SecretsNotLogged ==
    \A t \in Threads :
        (pc[t] # "idle" /\ client.Logger # "nil")
        => /\ op[t] = "ReplaceSecret"
              => /\ logged[t]
                      = <<[method |-> "ReplaceSecret", args |-> << <<arg[t].name>> >>]>>
                 /\ \A i \in DOMAIN logged[t][1].args :
                       logged[t][1].args[i] # <<arg[t].payload>>
           /\ op[t] \in {"CreatePod", "CreateJob", "PatchJob", "PatchJobStatus"}
              => \E i \in DOMAIN logged[t][1].args :
                    logged[t][1].args[i] = <<arg[t].payload>>
           /\ ~client.fake
              => \A i \in DOMAIN logged[t][1].args :
                    \A j \in DOMAIN logged[t][1].args[i] :
                       logged[t][1].args[i][j] # client.token

\* C14's case: ReplaceSecret has run with the Secret obj2 on a Client that
\* logs.
C14_Witness ==
    \E t \in Threads :
        /\ client.Logger = "logger"
        /\ ~client.fake
        /\ pc[t] = "done"
        /\ op[t] = "ReplaceSecret"
        /\ arg[t].payload = "obj2"
        /\ req[t].requestBody = "obj2"
        /\ Attempts(t) >= 1

\* C15, as the spec states it: NewClientInCluster returns an error and no
\* Client when the token file or the CA file is unreadable or the CA bundle
\* does not parse, and a Client with a nil error only when both are readable
\* and the bundle parses.
C15_BootFailsCleanly ==
    /\ bootErr # NilErr => client = NilClient
    /\ (~client.isNil /\ ~client.fake)
       => /\ bootErr = NilErr
          /\ fs.token.readable
          /\ fs.ca.readable
          /\ AppendCertsFromPEM(fs.ca.data)[2]

\* C16: a call closes the body of a response only after it obtained the
\* response, and by the time requestRetry has returned every response it
\* obtained has been closed exactly once, on every exit; a call whose attempts
\* all failed holds no response and closes nothing.
C16_BodyClosedOnce ==
    \A t \in Threads :
        /\ Cardinality(AnsweredIdx(t)) <= 1
        /\ Cardinality(CloseIdx(t)) <= Cardinality(AnsweredIdx(t))
        /\ \A i \in CloseIdx(t) : \E j \in AnsweredIdx(t) : j < i
        /\ Returned(t) => Cardinality(CloseIdx(t)) = Cardinality(AnsweredIdx(t))
        /\ AnsweredIdx(t) = {} => (resp[t].isNil /\ CloseIdx(t) = {})

\* C16's case: a 409 whose body could not be read: the call has returned the
\* read error and the body is closed.
C16_Witness ==
    \E t \in Threads :
        /\ pc[t] = "done"
        /\ AnsweredStatus(t) = 409
        /\ resp[t].Body.readFails
        /\ Cardinality(CloseIdx(t)) = 1

\* C17: from the moment the descriptor is handed to requestRetry until the
\* operation has returned no step changes it, and every doRequest of the call
\* was given the method, path, query and body the descriptor holds.
C17_DescriptorUnchanged ==
    /\ [](\A t \in Threads :
            /\ sent[t] \subseteq {Descriptor(req[t])}
            /\ Attempts(t) > 0 => sent[t] = {Descriptor(req[t])})
    /\ [][\A t \in Threads :
            pc[t] \notin {"idle", "done"} => req'[t] = req[t]]_vars

\* C17's case: a ListPods call with a two-label selector has made 8 attempts,
\* all with the one descriptor.
C17_Witness ==
    \E t \in Threads :
        /\ pc[t] = "done"
        /\ op[t] = "ListPods"
        /\ Attempts(t) = 8
        /\ Len(req[t].query["labelSelector"]) = 11
        /\ sent[t] = {Descriptor(req[t])}

\* C18: a call whose body does not marshal or whose request cannot be built
\* fails in doRequest before any network call, and is retried like a transport
\* failure: when requestRetry returns it has made 8 attempts, none of which
\* reached the network, has slept after each for 2s, 4s, ..., 256s, and returns
\* nil bytes and that error.
C18_LocalFailuresAreRetried ==
    \A t \in Threads :
        (/\ Returned(t)
         /\ ~client.fake
         /\ DoRequestLocalErr(req[t], 1) # NilErr)
        => /\ Attempts(t) = 8
           /\ NetworkIdx(t) = {}
           /\ SleepDurations(t) = [i \in 1..8 |-> 2 * Pow2(i - 1)]
           /\ out[t] = [bytes |-> NilBytes, err |-> DoRequestLocalErr(req[t], 8)]

\* C18's case: ReplaceSecret with a Secret that does not marshal has returned
\* the marshal error of its 8th attempt.
C18_Witness ==
    \E t \in Threads :
        /\ pc[t] = "done"
        /\ op[t] = "ReplaceSecret"
        /\ arg[t].name = "n"
        /\ arg[t].payload = "unencodable"
        /\ LocalIdx(t) = AttemptIdx(t)
        /\ result[t].err.dyn = "*json.UnsupportedTypeError"
        /\ result[t].err.id = 8

\* C19: when the body read fails, no attempt and no sleep follows, and
\* requestRetry returns nil bytes and the read error, with any status: the
\* status is not classified.
C19_ReadErrorWins ==
    \A t \in Threads : \A i \in 1..Len(events[t]) :
        events[t][i] = Event("read", 0)
        => /\ RetryWorkAfter(t, i) = {}
           /\ Returned(t)
           /\ out[t] = [bytes |-> NilBytes, err |-> ReadAll(resp[t].Body)[2]]
           /\ out[t].err.fmt = "unexpected EOF"
           /\ out[t].err.body = <<>>

\* C19's case: a 200 whose body could not be read, returned by GetLog as the
\* read error.
C19_Witness ==
    \E t \in Threads :
        /\ pc[t] = "done"
        /\ op[t] = "GetLog"
        /\ AnsweredStatus(t) = 200
        /\ resp[t].Body.readFails
        /\ result[t].bytes = NilBytes
        /\ result[t].err.fmt = "unexpected EOF"

\* C20: for a label mapping of n entries, labelsToSelector returns n items
\* `k = v`, one for each entry and each entry once, with one comma between
\* neighbours and none before the first or after the last; the empty mapping
\* gives the empty string.
C20_SelectorHoldsEachLabelOnce ==
    lts.done
    => LET n == Cardinality(DOMAIN lts.labels)
           s == lts.sel
       IN  /\ Len(s) = IF n = 0 THEN 0 ELSE 6 * n - 1
           /\ \A j \in 1..Len(s) : s[j] = "," <=> j % 6 = 0
           /\ \A k \in DOMAIN lts.labels :
                 Cardinality({i \in 1..n :
                     /\ 6 * i - 1 <= Len(s)
                     /\ SubSeq(s, 6 * i - 5, 6 * i - 1)
                          = <<k, " ", "=", " ", lts.labels[k]>>}) = 1

\* C20's case: three labels, returned in an order that starts with the last
\* key.
C20_Witness ==
    /\ lts.done
    /\ DOMAIN lts.labels = {"a", "b", "c"}
    /\ SubSeq(lts.sel, 1, 5) = <<"c", " ", "=", " ", "2">>
    /\ Len(lts.sel) = 17

====
